---- MODULE Spec2Model ----
(***************************************************************************)
(* Model of src/main.js: the quiz static-site generator.                   *)
(*                                                                         *)
(* Strings are sequences of one-character strings, so that endsWith and    *)
(* String.prototype.replace are computed as JavaScript computes them.      *)
(* JSON values are records carrying their JavaScript kind in `ty`.         *)
(* A file of the output directory is the sequence of chunks written to it. *)
(***************************************************************************)
EXTENDS Integers, Sequences, FiniteSets, TLC

VARIABLES
    index,       \* data/index.json
    data,        \* the other files of data/
    fault,       \* which calls on dist/ fail
    pc,          \* where main() is
    parsedJson,  \* main's parsedJson
    validFiles,  \* main's validFiles
    i,           \* position of the running for-of loop
    dist,        \* the files of dist/
    ops,         \* the fs calls of this run, in order
    run,         \* 1 in the first run of the program, 2 in the second
    prev         \* dist/ as the first run left it

vars == <<index, data, fault, pc, parsedJson, validFiles, i, dist, ops, run, prev>>

\* Longest index manifest the model enumerates.
MaxEntries == 2

-----------------------------------------------------------------------------
(* Strings *)

DotJson == <<".", "j", "s", "o", "n">>
DotHtml == <<".", "h", "t", "m", "l">>

\* String.prototype.endsWith
EndsWith(s, suf) ==
    /\ Len(s) >= Len(suf)
    /\ SubSeq(s, Len(s) - Len(suf) + 1, Len(s)) = suf

\* String.prototype.indexOf, 1-based; 0 when pat does not occur
IndexOf(s, pat) ==
    LET hits == {k \in 1..(Len(s) - Len(pat) + 1) :
                    SubSeq(s, k, k + Len(pat) - 1) = pat}
    IN IF hits = {} THEN 0 ELSE CHOOSE k \in hits : \A m \in hits : k <= m

\* String.prototype.replace with a string pattern: the FIRST occurrence only
Replace(s, pat, rep) ==
    LET k == IndexOf(s, pat)
    IN IF k = 0 THEN s
       ELSE SubSeq(s, 1, k - 1) \o rep \o SubSeq(s, k + Len(pat), Len(s))

\* entry.file.replace(".json", ".html")
HtmlName(file) == Replace(file, DotJson, DotHtml)

IndexHtml == <<"i", "n", "d", "e", "x">> \o DotHtml
StylesCss == <<"s", "t", "y", "l", "e", "s", ".", "c", "s", "s">>
ScriptJs  == <<"s", "c", "r", "i", "p", "t", ".", "j", "s">>

-----------------------------------------------------------------------------
(* JavaScript values *)

Str(s) == [ty |-> "string", s |-> s]
Num    == [ty |-> "number", s |-> <<>>]
Undef  == [ty |-> "undefined", s |-> <<>>]

\* typeof: null and arrays are "object"
TypeOf(v) == IF v.ty \in {"null", "array"} THEN "object" ELSE v.ty

Truthy(v) ==
    CASE v.ty = "string" -> v.s # <<>>
      [] v.ty \in {"null", "undefined"} -> FALSE
      [] OTHER -> TRUE


JsNull == [ty |-> "null", has |-> {}, title |-> Undef,
           questions |-> [ty |-> "undefined", items |-> <<>>], items |-> <<>>]

\* A parsed top-level value that is an array (the index manifest)
JsArray(entries) == [JsNull EXCEPT !.ty = "array", !.items = entries]

\* A parsed top-level value that is a plain object with the given keys
JsObject(keys, title, questions) ==
    [JsNull EXCEPT !.ty = "object", !.has = keys, !.title = title,
                   !.questions = questions]

JsNumber == [JsNull EXCEPT !.ty = "number"]

\* key in obj / obj.key
In(key, v) == key \in v.has

-----------------------------------------------------------------------------
(* Inputs: the index manifest, the data directory, the faults of the       *)
(* output directory                                                        *)

FileA   == <<"a">> \o DotJson
FileAJ  == <<"a">> \o DotJson \o DotJson
FileTxt == <<"c", ".", "t", "x", "t">>
IndexJson == <<"i", "n", "d", "e", "x">> \o DotJson

JsonFiles == {FileA, FileAJ}
DataFiles == JsonFiles \cup {FileTxt}

Entry(file, title) == [ty |-> "object", file |-> file, title |-> title]
NullEntry == [ty |-> "null", file |-> Undef, title |-> Undef]

Entries ==
    {Entry(Str(f), Str(<<"T">>)) : f \in DataFiles}
    \cup {Entry(Str(FileA), Num), Entry(Num, Str(<<"T">>)), NullEntry}

Manifests == UNION {[1..n -> Entries] : n \in 0..MaxEntries}

Ans(text, correct) == [ty |-> "object", answer |-> <<text>>, correct |-> correct]
NullAns == [ty |-> "null", answer |-> <<>>, correct |-> FALSE]
Answers(items) == [ty |-> "array", items |-> items]
NoAnswers == [ty |-> "undefined", items |-> <<>>]
StrAnswers == [ty |-> "string", items |-> <<>>]
Question(text, answers) == [ty |-> "object", question |-> <<text>>, answers |-> answers]
NullQuestion == [ty |-> "null", question |-> <<>>, answers |-> NoAnswers]

QArray(items) == [ty |-> "array", items |-> items]
QString == [ty |-> "string", items |-> <<>>]
QNull   == [ty |-> "null", items |-> <<>>]
QUndef  == [ty |-> "undefined", items |-> <<>>]

Q1 == Question("P", Answers(<<Ans("x", TRUE), Ans("y", FALSE)>>))
Q2 == Question("Q", StrAnswers)
Q3 == Question("R", Answers(<<NullAns>>))
TitleT == Str(<<"T">>)

Docs ==
    { JsObject({"title", "questions"}, TitleT, QArray(<<Q1>>)),
      JsObject({"title", "questions"}, TitleT, QArray(<<Q2, Q1>>)),
      JsObject({"title", "questions"}, TitleT, QArray(<<NullQuestion, Q1>>)),
      JsObject({"title", "questions"}, TitleT, QArray(<<Q1, Q3>>)),
      JsObject({"title", "questions"}, TitleT, QString),
      JsObject({"title", "questions"}, TitleT, QNull),
      JsObject({"title"}, TitleT, QUndef),
      JsObject({"questions"}, Undef, QArray(<<Q1>>)),
      JsObject({"title", "questions"}, Str(<<>>), QArray(<<Q1>>)),
      JsNumber }

\* A file on disk: missing, present but unreadable (a directory), present
\* with text that is not JSON, or present with text that parses to `value`.
File(st, value) == [st |-> st, value |-> value]
FileStates ==
    {File(st, JsNull) : st \in {"missing", "unreadable", "badjson"}}
    \cup {File("ok", d) : d \in Docs}

IndexStates(m) ==
    {File("unreadable", JsNull), File("badjson", JsNull),
     File("ok", JsObject({}, Undef, QUndef))}
    \cup {File("ok", JsArray(e)) : e \in m}

\* The data files an index manifest mentions
Mentioned(f) ==
    {f.value.items[k].file.s : k \in 1..Len(f.value.items)}

\* mkdir("dist") and the writes under it either work, or fail for everything
\* (dist cannot be created), or fail for one path (it is a directory).
Faults ==
    {[mkdirFails |-> FALSE, unwritable |-> {}],
     [mkdirFails |-> TRUE,  unwritable |-> {}],
     [mkdirFails |-> FALSE, unwritable |-> {IndexHtml}],
     [mkdirFails |-> FALSE, unwritable |-> {HtmlName(FileA)}]}

-----------------------------------------------------------------------------
(* The functions of main.js *)

\* fs.access
Access(f) == f.st # "missing"

\* readJson: the parsed value, or null when the read or the parse fails
readJson(f) == IF f.st = "ok" THEN f.value ELSE JsNull

IsValidEntry(entry) ==
    /\ TypeOf(entry) = "object"
    /\ entry.ty # "null"
    /\ TypeOf(entry.file) = "string"
    /\ TypeOf(entry.title) = "string"
    /\ EndsWith(entry.file.s, DotJson)

\* Variant of parseIndexJson: an empty list, not null, for a non-array
parseIndexJsonEmpty(value) ==
    IF value.ty # "array" THEN [isNull |-> FALSE, files |-> <<>>]
    ELSE [isNull |-> FALSE, files |-> SelectSeq(value.items, IsValidEntry)]

\* parseIndexJson: null unless the value is an array
parseIndexJson(value) ==
    IF value.ty # "array" THEN [isNull |-> TRUE, files |-> <<>>]
    ELSE [isNull |-> FALSE, files |-> SelectSeq(value.items, IsValidEntry)]

\* Variant of isValidJsonFile: also requires `questions` to be an array
isValidJsonFileArrayOnly(f) ==
    IF ~Access(f) THEN FALSE
    ELSE LET fileContent == readJson(f)
         IN ~ \/ TypeOf(fileContent) # "object"
              \/ fileContent.ty = "null"
              \/ ~In("questions", fileContent)
              \/ fileContent.questions.ty # "array"

\* isValidJsonFile
isValidJsonFile(f) ==
    IF ~Access(f) THEN FALSE
    ELSE LET fileContent == readJson(f)
         IN ~ \/ TypeOf(fileContent) # "object"
              \/ fileContent.ty = "null"
              \/ ~In("questions", fileContent)
              \/ fileContent.questions.ty = "null"

\* The first check of generateAllHtml
SkipStructure(fileContent) ==
    \/ ~Truthy(fileContent)
    \/ TypeOf(fileContent) # "object"
    \/ ~In("title", fileContent)
    \/ ~In("questions", fileContent)

\* The second check of generateAllHtml
SkipFields(fileContent) ==
    \/ ~Truthy(fileContent.title)
    \/ fileContent.questions.ty # "array"

HasAnswers(q) == q.answers.ty = "array"

\* Reading a property of null throws a TypeError
Throws(questions) ==
    \/ \E k \in 1..Len(questions) : questions[k].ty = "null"
    \/ \E k \in 1..Len(questions) :
          /\ HasAnswers(questions[k])
          /\ \E a \in 1..Len(questions[k].answers.items) :
                questions[k].answers.items[a].ty = "null"

AnswerHtml(answer) == [answer |-> answer.answer, correct |-> answer.correct]

CardHtml(q) ==
    [question |-> q.question,
     answers  |-> [a \in 1..Len(q.answers.items) |-> AnswerHtml(q.answers.items[a])]]

\* The page of a quiz document
PageHtml(fileContent) ==
    LET validQuestions == SelectSeq(fileContent.questions.items, HasAnswers)
    IN [kind  |-> "page",
        title |-> fileContent.title.s,
        items |-> [k \in 1..Len(validQuestions) |-> CardHtml(validQuestions[k])]]

LinkHtml(item) == [href |-> HtmlName(item.file.s), text |-> item.title.s]

\* The index page
IndexHtmlContent(entries) ==
    [kind  |-> "index",
     title |-> <<"V">>,
     items |-> [k \in 1..Len(entries) |-> LinkHtml(entries[k])]]

CssContent == [kind |-> "css", title |-> <<>>, items |-> <<>>]
JsContent  == [kind |-> "js",  title |-> <<>>, items |-> <<>>]

\* Variant of Outcome: the second check does not test the title
OutcomeNoTitleCheck(fileContent) ==
    CASE SkipStructure(fileContent) -> "skip"
      [] ~SkipStructure(fileContent) /\ fileContent.questions.ty # "array" -> "skip"
      [] OTHER -> IF Throws(fileContent.questions.items) THEN "throw" ELSE "write"

\* What generateAllHtml does with one document: "skip", "throw" or "write"
Outcome(fileContent) ==
    CASE SkipStructure(fileContent) -> "skip"
      [] ~SkipStructure(fileContent) /\ SkipFields(fileContent) -> "skip"
      [] OTHER -> IF Throws(fileContent.questions.items) THEN "throw" ELSE "write"

-----------------------------------------------------------------------------
(* The file system *)

EmptyDir == [p \in {} |-> <<>>]

CanWrite(path) == ~fault.mkdirFails /\ path \notin fault.unwritable

\* Variant of WriteFile: appends to the file (fs.appendFile)
WriteFileAppend(dir, path, content) ==
    IF path \in DOMAIN dir THEN [dir EXCEPT ![path] = Append(@, content)]
    ELSE (path :> <<content>>) @@ dir

\* fs.writeFile replaces the file's content
WriteFile(dir, path, content) == (path :> <<content>>) @@ dir

Op(op, path, ok) == [op |-> op, path |-> path, ok |-> ok]

Dist == <<"d", "i", "s", "t">>

\* fs.mkdir then fs.writeFile inside one try block: the calls made
MkdirWriteOps(path) ==
    IF fault.mkdirFails THEN <<Op("mkdir", Dist, FALSE)>>
    ELSE <<Op("mkdir", Dist, TRUE), Op("writeFile", path, CanWrite(path))>>

\* ... and the directory after them
MkdirWrite(dir, path, content) ==
    IF CanWrite(path) THEN WriteFile(dir, path, content) ELSE dir

-----------------------------------------------------------------------------
(* main() *)

GoodDoc == JsObject({"title", "questions"}, TitleT, QArray(<<Q1>>))

Init ==
    /\ \E m \in Manifests : index \in IndexStates({m})
    /\ data \in [DataFiles -> FileStates]
    /\ data[FileTxt] = File("ok", GoodDoc)
    /\ \A f \in JsonFiles : f \notin Mentioned(index) => data[f].st = "missing"
    /\ fault \in Faults
    /\ pc = "start"
    /\ parsedJson = [isNull |-> TRUE, files |-> <<>>]
    /\ validFiles = <<>>
    /\ i = 1
    /\ dist = EmptyDir
    /\ ops = <<>>
    /\ run = 1
    /\ prev = EmptyDir

\* const indexJson = await readJson(INDEX_PATH); parseIndexJson(indexJson)
ReadIndex ==
    /\ pc = "start"
    /\ parsedJson' = parseIndexJson(readJson(index))
    /\ ops' = Append(ops, Op("readFile", IndexJson, index.st \in {"badjson", "ok"}))
    /\ pc' = "css"
    /\ UNCHANGED <<index, data, fault, validFiles, i, dist, run, prev>>

generateCssFile ==
    /\ pc = "css"
    /\ ops' = ops \o MkdirWriteOps(StylesCss)
    /\ dist' = MkdirWrite(dist, StylesCss, CssContent)
    /\ pc' = "js"
    /\ UNCHANGED <<index, data, fault, parsedJson, validFiles, i, run, prev>>

\* generateJsFile, then the test parsedJson !== null
generateJsFile ==
    /\ pc = "js"
    /\ ops' = ops \o MkdirWriteOps(ScriptJs)
    /\ dist' = MkdirWrite(dist, ScriptJs, JsContent)
    /\ pc' = IF parsedJson.isNull THEN "done" ELSE "validate"
    /\ i' = 1
    /\ UNCHANGED <<index, data, fault, parsedJson, validFiles, run, prev>>

\* The fs calls of isValidJsonFile
ValidateOps(file, f) ==
    IF ~Access(f) THEN <<Op("access", file, FALSE)>>
    ELSE <<Op("access", file, TRUE),
           Op("readFile", file, f.st \in {"badjson", "ok"})>>

\* Variant of Validate: a valid entry goes to the front of validFiles
ValidateUnshift ==
    /\ pc = "validate"
    /\ i <= Len(parsedJson.files)
    /\ LET entry == parsedJson.files[i]
           f == data[entry.file.s]
       IN /\ ops' = ops \o ValidateOps(entry.file.s, f)
          /\ validFiles' = IF isValidJsonFile(f) THEN <<entry>> \o validFiles
                           ELSE validFiles
    /\ i' = i + 1
    /\ UNCHANGED <<index, data, fault, pc, parsedJson, dist, run, prev>>

\* One turn of the loop over parsedJson
Validate ==
    /\ pc = "validate"
    /\ i <= Len(parsedJson.files)
    /\ LET entry == parsedJson.files[i]
           f == data[entry.file.s]
       IN /\ ops' = ops \o ValidateOps(entry.file.s, f)
          /\ validFiles' = IF isValidJsonFile(f) THEN Append(validFiles, entry)
                           ELSE validFiles
    /\ i' = i + 1
    /\ UNCHANGED <<index, data, fault, pc, parsedJson, dist, run, prev>>

\* writeHtml(validFiles): its writeFile is outside any try block
writeHtml ==
    /\ pc = "validate"
    /\ i > Len(parsedJson.files)
    /\ ops' = Append(ops, Op("writeFile", IndexHtml, CanWrite(IndexHtml)))
    /\ dist' = MkdirWrite(dist, IndexHtml, IndexHtmlContent(validFiles))
    /\ pc' = IF CanWrite(IndexHtml) THEN "generate" ELSE "rejected"
    /\ i' = 1
    /\ UNCHANGED <<index, data, fault, parsedJson, validFiles, run, prev>>

\* The fs calls of one turn of generateAllHtml
GenerateOps(file, f) ==
    <<Op("readFile", file, f.st \in {"badjson", "ok"})>>
    \o (IF Outcome(readJson(f)) = "write" THEN MkdirWriteOps(HtmlName(file))
        ELSE <<>>)

\* Variant of generateAllHtml: a skip or an error leaves the loop
generateAllHtmlBreak ==
    /\ pc = "generate"
    /\ i <= Len(validFiles)
    /\ LET entry == validFiles[i]
           f == data[entry.file.s]
           fileContent == readJson(f)
       IN /\ ops' = ops \o GenerateOps(entry.file.s, f)
          /\ dist' = IF Outcome(fileContent) = "write"
                     THEN MkdirWrite(dist, HtmlName(entry.file.s), PageHtml(fileContent))
                     ELSE dist
          /\ i' = IF Outcome(fileContent) = "write" THEN i + 1
                  ELSE Len(validFiles) + 1
    /\ UNCHANGED <<index, data, fault, pc, parsedJson, validFiles, run, prev>>

\* One turn of the loop of generateAllHtml
generateAllHtml ==
    /\ pc = "generate"
    /\ i <= Len(validFiles)
    /\ LET entry == validFiles[i]
           f == data[entry.file.s]
           fileContent == readJson(f)
       IN /\ ops' = ops \o GenerateOps(entry.file.s, f)
          /\ dist' = IF Outcome(fileContent) = "write"
                     THEN MkdirWrite(dist, HtmlName(entry.file.s), PageHtml(fileContent))
                     ELSE dist
    /\ i' = i + 1
    /\ UNCHANGED <<index, data, fault, pc, parsedJson, validFiles, run, prev>>

\* generateAllHtml returns and main() ends
Return ==
    /\ pc = "generate"
    /\ i > Len(validFiles)
    /\ pc' = "done"
    /\ UNCHANGED <<index, data, fault, parsedJson, validFiles, i, dist, ops, run, prev>>

Next ==
    \/ ReadIndex
    \/ generateCssFile
    \/ generateJsFile
    \/ Validate
    \/ writeHtml
    \/ generateAllHtml
    \/ Return

Spec == Init /\ [][Next]_vars

\* The program is started again on the same inputs
RunAgain ==
    /\ pc \in {"done", "rejected"}
    /\ run = 1
    /\ run' = 2
    /\ prev' = dist
    /\ pc' = "start"
    /\ parsedJson' = [isNull |-> TRUE, files |-> <<>>]
    /\ validFiles' = <<>>
    /\ i' = 1
    /\ ops' = <<>>
    /\ UNCHANGED <<index, data, fault, dist>>

NextTwice == Next \/ RunAgain

SpecTwice == Init /\ [][NextTwice]_vars

-----------------------------------------------------------------------------
(* Vocabulary of the properties *)

Terminal == pc \in {"done", "rejected"}

\* The index manifest on disk is a JSON array
ArrayManifest == index.st = "ok" /\ index.value.ty = "array"

Range(seq) == {seq[k] : k \in 1..Len(seq)}

\* The quiz pages of a directory: everything but the three fixed files
Pages(dir) == DOMAIN dir \ {IndexHtml, StylesCss, ScriptJs}

\* The manifest entries that pass parseIndexJson's filter and isValidJsonFile
PassedBoth ==
    SelectSeq(parseIndexJson(readJson(index)).files,
              LAMBDA e : isValidJsonFile(data[e.file.s]))

\* file with its trailing .json replaced by .html
SuffixHtml(file) == SubSeq(file, 1, Len(file) - Len(DotJson)) \o DotHtml

\* A file holding a document with a truthy title and an array `questions`
TitledWithQuestionArray(f) ==
    /\ f.st = "ok"
    /\ f.value.ty = "object"
    /\ {"title", "questions"} \subseteq f.value.has
    /\ f.value.title.ty = "string" /\ f.value.title.s # <<>>
    /\ f.value.questions.ty = "array"

\* ... none of whose questions, and none of whose answers, is null
Renderable(f) ==
    /\ TitledWithQuestionArray(f)
    /\ \A q \in Range(f.value.questions.items) :
          /\ q.ty # "null"
          /\ q.answers.ty = "array" =>
                \A a \in Range(q.answers.items) : a.ty # "null"

\* The calls of one kind made so far in this run
Calls(op) == SelectSeq(ops, LAMBDA o : o.op = op)

\* The position of the write of index.html among this run's calls, or 0
IndexWriteAt ==
    LET at == {k \in 1..Len(ops) : ops[k].op = "writeFile" /\ ops[k].path = IndexHtml}
    IN IF at = {} THEN 0 ELSE CHOOSE k \in at : TRUE

\* The data files generateAllHtml has read so far in this run
Generated ==
    IF IndexWriteAt = 0 THEN <<>>
    ELSE SelectSeq(SubSeq(ops, IndexWriteAt + 1, Len(ops)),
                   LAMBDA o : o.op = "readFile")

-----------------------------------------------------------------------------
(* C1 *)

\* C1 as stated: when main() finishes on an array manifest, there are as
\* many quiz pages in dist/ as entries that passed both checks.
C1_PagesEqualValidEntries ==
    (pc = "done" /\ ArrayManifest) => Cardinality(Pages(dist)) = Len(PassedBoth)

\* C1 amended: when main() finishes on an array manifest, the quiz pages in
\* dist/ are exactly the pages of the entries that passed both checks, whose
\* document renders and whose page can be written; so there are at most as
\* many pages as such entries. When the write of index.html fails there is
\* no quiz page at all.
C1_PagesAreRenderedValidEntries ==
    /\ (pc = "done" /\ ArrayManifest) =>
          /\ Pages(dist) = {HtmlName(e.file.s) : e \in
                              {v \in Range(PassedBoth) :
                                  /\ Renderable(data[v.file.s])
                                  /\ CanWrite(HtmlName(v.file.s))}}
          /\ Cardinality(Pages(dist)) <= Len(PassedBoth)
    /\ pc = "rejected" => Pages(dist) = {}

\* Two entries passed both checks and one page was written.
C1_Witness ==
    /\ pc = "done"
    /\ ArrayManifest
    /\ Len(PassedBoth) = 2
    /\ Cardinality(Pages(dist)) = 1

-----------------------------------------------------------------------------
(* C2 *)

\* A file holding a document whose `questions` is there, is not null and is
\* not an array
QuestionsNotArray(f) ==
    /\ f.st = "ok"
    /\ f.value.ty = "object"
    /\ "questions" \in f.value.has
    /\ f.value.questions.ty \notin {"null", "array"}

\* C2: for every entry whose document has a `questions` that is present
\* (there and not null) but not an array, isValidJsonFile returns true, the
\* entry is among validFiles once it has been checked, and generateAllHtml
\* makes no write for it: its page is never in dist/.
C2_NonArrayQuestionsPassThenSkipped ==
    \A k \in 1..Len(parsedJson.files) :
        LET file == parsedJson.files[k].file.s
        IN QuestionsNotArray(data[file]) =>
              /\ isValidJsonFile(data[file])
              /\ (pc \in {"generate", "done"} \/ (pc = "validate" /\ i > k))
                    => parsedJson.files[k] \in Range(validFiles)
              /\ HtmlName(file) \notin DOMAIN dist
              /\ \A o \in Range(ops) : ~(o.op = "writeFile" /\ o.path = HtmlName(file))

\* main() finished, and generateAllHtml went over such an entry.
C2_Witness ==
    /\ pc = "done"
    /\ \E v \in Range(validFiles) :
          /\ QuestionsNotArray(data[v.file.s])
          /\ \E o \in Range(Generated) : o.path = v.file.s

-----------------------------------------------------------------------------
(* C3 *)

\* C3 as stated: for every document with a truthy title and an array
\* `questions` that generateAllHtml went over and whose page can be written,
\* the page is in dist/, holds a card for every question whose `answers` is
\* an array, and none for a question whose `answers` is not.
C3_QuestionsWithoutAnswersDropped ==
    pc = "done" =>
        \A v \in Range(validFiles) :
            LET f == data[v.file.s]
                page == HtmlName(v.file.s)
            IN (TitledWithQuestionArray(f) /\ CanWrite(page)) =>
                  /\ page \in DOMAIN dist
                  /\ \A q \in Range(f.value.questions.items) :
                        (q.answers.ty = "array") <=>
                            (\E c \in Range(dist[page][1].items) :
                                 c.question = q.question)

-----------------------------------------------------------------------------
(* C4 *)

\* C4 as stated: the href of every link of index.html, and the name of
\* every quiz page written, is the `file` of a valid entry with its trailing
\* .json replaced by .html.
C4_SuffixReplaced ==
    /\ IndexHtml \in DOMAIN dist =>
          \A k \in 1..Len(validFiles) :
              dist[IndexHtml][1].items[k].href = SuffixHtml(validFiles[k].file.s)
    /\ Pages(dist) \subseteq {SuffixHtml(v.file.s) : v \in Range(validFiles)}

-----------------------------------------------------------------------------
(* C5 *)

\* C5 as stated: no failure escapes main() as a rejection.
C5_NoErrorEscapes == pc # "rejected"

-----------------------------------------------------------------------------
(* C6 *)

\* C6: once the validation loop is over, fs.access has been called for
\* every entry of parsedJson, in order, whatever the earlier entries did;
\* and once generateAllHtml has returned it has read the file of every valid
\* entry, in order, and the page of every valid entry that renders and can
\* be written is in dist/ with that entry's content.
C6_FailureIsolation ==
    /\ pc \in {"generate", "done", "rejected"} =>
          [k \in 1..Len(Calls("access")) |-> Calls("access")[k].path]
             = [k \in 1..Len(parsedJson.files) |-> parsedJson.files[k].file.s]
    /\ pc = "done" =>
          /\ [k \in 1..Len(Generated) |-> Generated[k].path]
                = [k \in 1..Len(validFiles) |-> validFiles[k].file.s]
          /\ \A v \in Range(validFiles) :
                (Renderable(data[v.file.s]) /\ CanWrite(HtmlName(v.file.s))) =>
                    /\ HtmlName(v.file.s) \in DOMAIN dist
                    /\ dist[HtmlName(v.file.s)] = <<PageHtml(data[v.file.s].value)>>

\* main() finished; the first valid entry was skipped or threw, and the page
\* of the second one is there.
C6_Witness ==
    /\ pc = "done"
    /\ Len(validFiles) = 2
    /\ ~Renderable(data[validFiles[1].file.s])
    /\ HtmlName(validFiles[1].file.s) \notin DOMAIN dist
    /\ HtmlName(validFiles[2].file.s) \in DOMAIN dist

-----------------------------------------------------------------------------
(* C7 *)

\* The entries of the manifest that have the shape parseIndexJson keeps
ShapedEntries == parseIndexJson(readJson(index)).files

\* C7: on an array manifest, whenever index.html is in dist/ its links are
\* those of the entries that passed both checks, one per entry and in
\* manifest order; and an entry whose file does not exist has no link, no
\* page in dist/ and no write made for it.
C7_IndexLinksInManifestOrder ==
    ArrayManifest =>
        /\ IndexHtml \in DOMAIN dist =>
              /\ Len(dist[IndexHtml]) = 1
              /\ dist[IndexHtml][1].items
                    = [k \in 1..Len(PassedBoth) |->
                          [href |-> HtmlName(PassedBoth[k].file.s),
                           text |-> PassedBoth[k].title.s]]
        /\ \A e \in Range(ShapedEntries) :
              data[e.file.s].st = "missing" =>
                  /\ IndexHtml \in DOMAIN dist =>
                        \A l \in Range(dist[IndexHtml][1].items) :
                            l.href \notin {HtmlName(e.file.s), SuffixHtml(e.file.s)}
                  /\ HtmlName(e.file.s) \notin DOMAIN dist
                  /\ SuffixHtml(e.file.s) \notin DOMAIN dist
                  /\ \A o \in Range(ops) :
                        o.op = "writeFile" =>
                            o.path \notin {HtmlName(e.file.s), SuffixHtml(e.file.s)}

\* main() finished on a manifest of an entry whose file is missing followed
\* by a valid one; index.html holds the one link.
C7_Witness ==
    /\ pc = "done"
    /\ Len(ShapedEntries) = 2
    /\ data[ShapedEntries[1].file.s].st = "missing"
    /\ Len(PassedBoth) = 1
    /\ IndexHtml \in DOMAIN dist
    /\ Len(dist[IndexHtml][1].items) = 1
    /\ Pages(dist) # {}

\* main() finished on a manifest of two valid entries with different files;
\* index.html holds the two links.
C7_WitnessTwoLinks ==
    /\ pc = "done"
    /\ Len(PassedBoth) = 2
    /\ PassedBoth[1].file.s # PassedBoth[2].file.s
    /\ IndexHtml \in DOMAIN dist

-----------------------------------------------------------------------------
(* C8 *)

\* generateCssFile and generateJsFile ran: each called mkdir, and called
\* writeFile for its file unless mkdir failed.
AssetsAttempted ==
    /\ Len(Calls("mkdir")) >= 2
    /\ ~fault.mkdirFails =>
          \A path \in {StylesCss, ScriptJs} :
              \E o \in Range(ops) : o.op = "writeFile" /\ o.path = path

\* C8: in every run, once main() is past generateJsFile both asset writes
\* have been attempted; and when the manifest fails to load or is not an
\* array, main() ends without index.html, without any quiz page, and without
\* a write attempted for either.
C8_InvalidIndexWritesOnlyAssets ==
    /\ pc \notin {"start", "css", "js"} => AssetsAttempted
    /\ (Terminal /\ ~ArrayManifest) =>
          /\ pc = "done"
          /\ DOMAIN dist \subseteq {StylesCss, ScriptJs}
          /\ \A o \in Range(ops) :
                o.op = "writeFile" => o.path \in {StylesCss, ScriptJs}

\* main() finished on a manifest that is not an array, and both assets are
\* in dist/.
C8_Witness ==
    /\ pc = "done"
    /\ index.st = "ok"
    /\ ~ArrayManifest
    /\ DOMAIN dist = {StylesCss, ScriptJs}

-----------------------------------------------------------------------------
(* C9 *)

\* C9: when the second run on the same inputs ends, dist/ holds the same
\* files with the same content as when the first run ended.
C9_Idempotent == (run = 2 /\ Terminal) => dist = prev

\* The second run finished and dist/ holds index.html with a link and a quiz
\* page with a card.
C9_Witness ==
    /\ run = 2
    /\ pc = "done"
    /\ IndexHtml \in DOMAIN dist
    /\ dist[IndexHtml][1].items # <<>>
    /\ \E p \in Pages(dist) : dist[p][1].items # <<>>

-----------------------------------------------------------------------------
(* C10 *)

\* The ordering half of C10: index.html is written after fs.access has been
\* called for every entry of parsedJson and before any quiz page is written.
C10_IndexAfterChecksBeforePages ==
    IndexWriteAt # 0 =>
        /\ Len(SelectSeq(SubSeq(ops, 1, IndexWriteAt), LAMBDA o : o.op = "access"))
              = Len(parsedJson.files)
        /\ \A k \in 1..Len(ops) :
              (ops[k].op = "writeFile" /\ ops[k].path \notin {IndexHtml, StylesCss, ScriptJs})
                  => k > IndexWriteAt

\* C10 as stated: on an array manifest index.html is written after every
\* check and before any page, and main() ends with index.html written and
\* with every valid entry gone over by generateAllHtml.
C10_StageOrderAndTerminalState ==
    ArrayManifest =>
        /\ C10_IndexAfterChecksBeforePages
        /\ Terminal =>
              /\ IndexHtml \in DOMAIN dist
              /\ Len(Generated) = Len(validFiles)

====
